---- MODULE Spec2Model ----
(***************************************************************************)
(* The chat assistant of src/App.tsx: login, one asynchronous turn per     *)
(* sent message (LLM call, action switch, directory calls), the stop       *)
(* button, and the WordPress category catalog the turns read and patch.    *)
(*                                                                         *)
(* Every action is one run of a handler from one await to the next.        *)
(* Strings the program builds with template literals are sequences of      *)
(* tokens: the literal pieces and the interpolated values, in order; an    *)
(* interpolated empty string contributes no token.                         *)
(*                                                                         *)
(* src/App.tsx ends inside the action switch (line 205).  What follows     *)
(* the switch (the catch blocks and the delivery of the response) and the  *)
(* services of ./services/wordpressService are modelled from spec.md.      *)
(***************************************************************************)
EXTENDS Integers, Sequences, FiniteSets, TLC

(* ------------------------------ bounds -------------------------------- *)

\* Messages sent with credentials stored over one behaviour.
MaxTurns == 2
\* Calls of handleLogin over one behaviour.
MaxLogins == 1
\* Categories of the catalog.
MaxCats == 2
\* Optional fields an UPDATE_CATEGORY_METADATA payload carries at most.
MaxPresent == 1
\* Suggestions the resolver returns at most.
MaxSuggestions == 2

(* ------------------------------ values -------------------------------- *)

\* JavaScript's undefined: what reading an absent key gives.
Undefined == "<undefined>"

\* `v` is truthy, for the strings and undefined the program tests.
Truthy(v) == v # Undefined /\ v # ""

\* obj[k] as JavaScript reads it: undefined when the key is absent.
Get(obj, k) == IF k \in DOMAIN obj THEN obj[k] ELSE Undefined

\* `v || d`.
OrElse(v, d) == IF Truthy(v) THEN v ELSE d

\* `${v}` inside a template literal, as tokens.
Tok(v) == IF v = "" THEN << >> ELSE << v >>

\* String.prototype.toLowerCase on the names of the model.
Lower(s) ==
    CASE s = "Shoes" -> "shoes"
      [] s = "Shirts" -> "shirts"
      [] s = "Socks" -> "socks"
      [] s = "Boots" -> "boots"
      [] s = "Hats" -> "hats"
      [] OTHER -> s

\* Array.prototype.join on an array of strings (each a token sequence).
RECURSIVE Join(_, _)
Join(strs, sep) ==
    IF Len(strs) = 0 THEN << >>
    ELSE IF Len(strs) = 1 THEN strs[1]
    ELSE strs[1] \o << sep >> \o Join(Tail(strs), sep)

\* String.prototype.trim on the texts of the model.
Trim(s) == IF s = "  " THEN "" ELSE s

(* ------------------------------ catalog ------------------------------- *)

\* A WPCategory is a function from its present keys to their values.
CatName(i) ==
    CASE i = 1 -> "Shoes"
      [] i = 2 -> "Shirts"
      [] OTHER -> "Socks"

\* No SEO key at all, an empty description.
BareCategory(i) ==
    [k \in {"id", "name", "slug", "description"} |->
        CASE k = "id" -> i
          [] k = "name" -> CatName(i)
          [] k = "slug" -> Lower(CatName(i))
          [] OTHER -> ""]

\* Every field set.
FullCategory(i) ==
    [k \in {"id", "name", "slug", "description", "yoast_head_json",
            "_yoast_wpseo_title", "_yoast_wpseo_metadesc", "_yoast_wpseo_focuskw"} |->
        CASE k = "id" -> i
          [] k = "name" -> CatName(i)
          [] k = "slug" -> Lower(CatName(i))
          [] k = "description" -> "A description"
          [] k = "yoast_head_json" -> [title |-> "SEO title", description |-> "SEO description"]
          [] k = "_yoast_wpseo_title" -> "SEO title"
          [] k = "_yoast_wpseo_metadesc" -> "SEO description"
          [] OTHER -> "keyphrase"]

\* SEO data present and empty: an empty SEO title, no SEO description, an
\* empty keyphrase, an empty slug.
BlankCategory(i) ==
    [k \in {"id", "name", "slug", "description", "yoast_head_json", "_yoast_wpseo_focuskw"} |->
        CASE k = "id" -> i
          [] k = "name" -> CatName(i)
          [] k = "description" -> "A description"
          [] k = "yoast_head_json" -> [title |-> ""]
          [] OTHER -> ""]

\* The catalogs a behaviour starts from: for each size up to MaxCats one
\* catalog, with the ids 1..n in order and the three kinds of category
\* taking turns.
Category(i, n) ==
    CASE (i + n) % 3 = 0 -> BareCategory(i)
      [] (i + n) % 3 = 1 -> FullCategory(i)
      [] OTHER -> BlankCategory(i)

Catalogs == {[i \in 1..n |-> Category(i, n)] : n \in 0..MaxCats}

(* --------------------------- the LLM's replies ------------------------ *)

PayloadKeys == {"description", "name", "slug", "metaTitle", "metaDescription", "focusKeyphrase"}

\* The value the model's LLM gives a payload field when it is not empty.
NewValue(k) ==
    CASE k = "name" -> "Boots"
      [] k = "slug" -> "boots"
      [] k = "description" -> "New description"
      [] k = "metaTitle" -> "New title"
      [] k = "metaDescription" -> "New meta description"
      [] OTHER -> "new keyphrase"

\* The optional part of an update payload: at most MaxPresent keys, each
\* empty or not.
Fields ==
    UNION {[S -> {"", "v"}] : S \in {T \in SUBSET PayloadKeys : Cardinality(T) <= MaxPresent}}

FieldValues(f) == [k \in DOMAIN f |-> IF f[k] = "" THEN "" ELSE NewValue(k)]

\* categoryName as the LLM may give it when it is not empty: the name of the
\* first category in another case, the name of the second (unknown to a
\* catalog of fewer).
QueryNames == {"shoes", "Shirts"}

WithName(f, n) ==
    [k \in DOMAIN f \cup {"categoryName"} |-> IF k = "categoryName" THEN n ELSE f[k]]

\* parsedResponse.payload, a function from its present keys to their values.
Payloads ==
    {WithName(FieldValues(f), n) : f \in Fields, n \in QueryNames}
    \cup {FieldValues(f) : f \in {g \in Fields : DOMAIN g \subseteq {"description"}}}
    \cup {[categoryName |-> ""]}

\* The payloads of the actions that read categoryName alone.
NamePayloads == {p \in Payloads : DOMAIN p \subseteq {"categoryName"}}

\* The payloads of GET_CATEGORY_METADATA: categoryName alone, or with a field
\* that only an update reads.
ReadPayloads ==
    NamePayloads \cup {WithName([description |-> NewValue("description")], "shoes")}

\* What getGeminiResponse returns: the text and what JSON.parse makes of it
\* (an object with the keys the LLM wrote), or text that is no JSON.
PlainReply == [text |-> "Bonjour !", json |-> FALSE]
JsonReply(a, p) == [text |-> "{json}", json |-> TRUE, action |-> a, payload |-> p]
JsonReplyNoPayload(a) == [text |-> "{json}", json |-> TRUE, action |-> a]

Actions ==
    {"LIST_CATEGORIES", "GET_CATEGORY_METADATA", "UPDATE_CATEGORY_METADATA",
     "COPY_YOAST_META_DESC_TO_DESC"}

Replies ==
    {PlainReply, [text |-> "{json}", json |-> TRUE], JsonReplyNoPayload("SAY_HELLO")}
    \cup {JsonReplyNoPayload(a) : a \in Actions}
    \cup {JsonReply("GET_CATEGORY_METADATA", p) : p \in ReadPayloads}
    \cup {JsonReply("COPY_YOAST_META_DESC_TO_DESC", p) : p \in NamePayloads}
    \cup {JsonReply("UPDATE_CATEGORY_METADATA", p) : p \in Payloads}


(* ------------------ ./services/wordpressService ----------------------- *)

\* getCategories: the catalog as the backend holds it, in catalog order.
getCategories(categories) == categories

Min(S) == CHOOSE x \in S : \A y \in S : x <= y

\* The exact match of the resolver: the first category, in catalog order,
\* whose name equals the query up to case; none is << >>.
ExactMatchOf(categories, queryName) ==
    LET hits == {i \in 1..Len(categories) :
                    Lower(categories[i]["name"]) = Lower(queryName)}
    IN  IF hits = {} THEN << >> ELSE << categories[Min(hits)] >>

\* The sequences of at most MaxSuggestions distinct categories.
SuggestionLists(categories) ==
    LET idx == UNION {[1..n -> 1..Len(categories)] : n \in 0..MaxSuggestions}
    IN  {[i \in 1..Len(s) |-> categories[s[i]]] :
            s \in {q \in idx : \A i, j \in 1..Len(q) : i # j => q[i] # q[j]}}

\* The categories other than `category`, in catalog order, cut to
\* MaxSuggestions.
Others(categories, category) ==
    LET rest == SelectSeq(categories, LAMBDA c : c["id"] # category["id"])
    IN  SubSeq(rest, 1, IF Len(rest) < MaxSuggestions THEN Len(rest) ELSE MaxSuggestions)

\* getCategoryByName: the possible { exactMatch, suggestions }.  The
\* similarity measure that ranks the suggestions is left open: without an
\* exact match every ordered selection is a possible result.  With one, the
\* suggestions are empty, or (a resolver that does not drop them) the other
\* categories.
getCategoryByName(categories, queryName) ==
    LET exactMatch == ExactMatchOf(categories, queryName)
    IN  IF exactMatch = << >>
        THEN {[exactMatch |-> << >>, suggestions |-> s] : s \in SuggestionLists(categories)}
        ELSE {[exactMatch |-> exactMatch, suggestions |-> s] :
                s \in {<< >>, Others(categories, exactMatch[1])}}

\* A sparse patch applied to one category: the keys of the patch are set,
\* every other key is left as it is.
Patched(category, patch) ==
    [k \in DOMAIN category \cup DOMAIN patch |->
        IF k \in DOMAIN patch THEN patch[k] ELSE category[k]]

\* updateCategoryMetadata, when the backend accepts it.
updateCategoryMetadata(categories, id, patch) ==
    [i \in 1..Len(categories) |->
        IF categories[i]["id"] = id THEN Patched(categories[i], patch) ELSE categories[i]]

(* --------------------- the responses of the switch -------------------- *)

NoResponse == << >>

Names(categories) == [i \in 1..Len(categories) |-> Tok(categories[i]["name"])]

ListHeader == "Voici les catégories de produits trouvées : \n\n"

\* LIST_CATEGORIES.
ListResponse(categories) ==
    << ListHeader, " - " >> \o Join(Names(categories), "\n - ")

AskNameToRead == << "Veuillez spécifier un nom de catégorie." >>
AskNameToUpdate == << "Veuillez spécifier un nom de catégorie à mettre à jour." >>

\* category.yoast_head_json?.[k]
YoastHead(category, k) ==
    IF "yoast_head_json" \in DOMAIN category
    THEN Get(category["yoast_head_json"], k)
    ELSE Undefined

MetadataLabels ==
    << "\n\n- Description: ", "\n- Slug: ", "\n- Titre SEO (Yoast): ",
       "\n- Méta Description (Yoast): ", "\n- Expression-clé principale (Yoast): " >>

Placeholders == {"Non défini", "Non définie"}

\* MetadataResponse with a slip: the description has no fallback.
MetadataResponse_BareDescription(category) ==
    LET yoastTitle == OrElse(YoastHead(category, "title"), "Non défini")
        yoastDesc == OrElse(YoastHead(category, "description"), "Non définie")
        yoastFocusKw == OrElse(Get(category, "_yoast_wpseo_focuskw"), "Non définie")
        slug == OrElse(Get(category, "slug"), "Non défini")
    IN  << "Voici les métadonnées pour \"" >> \o Tok(category["name"]) \o << "\":" >>
        \o << MetadataLabels[1] >> \o Tok(Get(category, "description"))
        \o << MetadataLabels[2] >> \o Tok(slug)
        \o << MetadataLabels[3] >> \o Tok(yoastTitle)
        \o << MetadataLabels[4] >> \o Tok(yoastDesc)
        \o << MetadataLabels[5] >> \o Tok(yoastFocusKw)

\* GET_CATEGORY_METADATA on an exact match.
MetadataResponse(category) ==
    LET yoastTitle == OrElse(YoastHead(category, "title"), "Non défini")
        yoastDesc == OrElse(YoastHead(category, "description"), "Non définie")
        yoastFocusKw == OrElse(Get(category, "_yoast_wpseo_focuskw"), "Non définie")
        slug == OrElse(Get(category, "slug"), "Non défini")
    IN  << "Voici les métadonnées pour \"" >> \o Tok(category["name"]) \o << "\":" >>
        \o << MetadataLabels[1] >> \o Tok(OrElse(Get(category, "description"), "Non définie"))
        \o << MetadataLabels[2] >> \o Tok(slug)
        \o << MetadataLabels[3] >> \o Tok(yoastTitle)
        \o << MetadataLabels[4] >> \o Tok(yoastDesc)
        \o << MetadataLabels[5] >> \o Tok(yoastFocusKw)

\* suggestions.map(s => `"${s.name}"`).join('\n - ')
SuggestionList(suggestions) ==
    Join([i \in 1..Len(suggestions) |->
            << "\"" >> \o Tok(suggestions[i]["name"]) \o << "\"" >>], "\n - ")

DidYouMeanToRead == "\".\n\nVouliez-vous dire l'une de ces catégories ?\n - "
DidYouMeanToUpdate ==
    "\" à mettre à jour.\n\nVouliez-vous dire l'une de ces catégories ?\n - "

SuggestionsToRead(name, suggestions) ==
    << "Je n'ai pas trouvé de correspondance exacte pour \"" >> \o Tok(name)
        \o << DidYouMeanToRead >> \o SuggestionList(suggestions)

NotFoundToRead(name) ==
    << "Désolé, je n'ai pas trouvé de catégorie nommée \"" >> \o Tok(name)
        \o << "\" ou s'en approchant." >>

SuggestionsToUpdate(name, suggestions) ==
    << "Je n'ai pas trouvé de correspondance exacte pour \"" >> \o Tok(name)
        \o << DidYouMeanToUpdate >> \o SuggestionList(suggestions)

NotFoundToUpdate(name) ==
    << "Désolé, je n'ai pas trouvé de catégorie nommée \"" >> \o Tok(name)
        \o << "\" à mettre à jour." >>

NothingToChange ==
    << "Aucune modification à appliquer. Veuillez spécifier un champ à modifier." >>

UpdateSucceeded(name, categoryName) ==
    << "La catégorie \"" >> \o Tok(OrElse(name, categoryName))
        \o << "\" a été mise à jour avec succès." >>

UpdateFailed(categoryName) ==
    << "Une erreur est survenue lors de la mise à jour de la catégorie \"" >>
        \o Tok(categoryName) \o << "\"." >>

\* The key of the patch each payload key is written to.
PatchKey(k) ==
    CASE k = "metaTitle" -> "_yoast_wpseo_title"
      [] k = "metaDescription" -> "_yoast_wpseo_metadesc"
      [] k = "focusKeyphrase" -> "_yoast_wpseo_focuskw"
      [] OTHER -> k

\* BuildUpdatePayload with a slip: description is tested like the other
\* fields, so an empty description is dropped.
BuildUpdatePayload_TruthyDescription(payload) ==
    LET taken == {k \in PayloadKeys : Truthy(Get(payload, k))}
    IN  [pk \in {PatchKey(k) : k \in taken} |->
            payload[CHOOSE k \in taken : PatchKey(k) = pk]]

\* updatePayload: description when it is not undefined, every other field
\* when it is truthy.
BuildUpdatePayload(payload) ==
    LET taken == {k \in PayloadKeys :
                    IF k = "description" THEN Get(payload, k) # Undefined
                    ELSE Truthy(Get(payload, k))}
    IN  [pk \in {PatchKey(k) : k \in taken} |->
            payload[CHOOSE k \in taken : PatchKey(k) = pk]]


(* ------------------------------- state -------------------------------- *)

VARIABLES
    wpCredentials,      \* useState: the stored credentials, or Null
    wpStatus,           \* useState: ConnectionStatus
    geminiStatus,       \* useState: ConnectionStatus
    messages,           \* useState: the conversation
    isTyping,           \* useState
    abortControllerRef, \* useRef: the turn whose controller is registered, 0 for null
    validating,         \* a handleLogin is awaiting the two validations
    logins,             \* calls of handleLogin so far
    started,            \* turns started so far
    turns,              \* each turn's locals: one call of handleSendMessage
    catalog             \* the categories the backend holds

vars ==
    << wpCredentials, wpStatus, geminiStatus, messages, isTyping, abortControllerRef,
       validating, logins, started, turns, catalog >>

Null == "<null>"
Credentials == "credentials"

NoReply == [text |-> "", json |-> FALSE]

\* The locals of a call of handleSendMessage that has not started.
\*   pc             where the call is: idle, awaiting (llm, list, resolve,
\*                  update), respond (the switch is left), done
\*   aborted        controller.signal.aborted
\*   reply          what getGeminiResponse answers this call (aiResponseText
\*                  and parsedResponse), fixed when the request is sent and
\*                  gone when the call has returned
\*   resolution     << >>, or << { exactMatch, suggestions } >> once resolved
\*   updatePayload  << >>, or << the patch >> once built
\*   actionResponse the response of the switch, NoResponse for null
\*   error          the error thrown out of the switch, if any
\*   calls          the directory calls issued, in order, each with its
\*                  outcome: pending, returned, threw
\*   responses      assistant messages this call has appended
NewTurn ==
    [pc |-> "idle", aborted |-> FALSE, reply |-> NoReply, resolution |-> << >>,
     updatePayload |-> << >>, actionResponse |-> NoResponse, error |-> "none",
     calls |-> << >>, responses |-> 0]

Turns == 1..MaxTurns

Init ==
    /\ wpCredentials = Null
    /\ wpStatus = "disconnected"
    /\ geminiStatus = "disconnected"
    /\ messages = << >>
    /\ isTyping = FALSE
    /\ abortControllerRef = 0
    /\ validating = FALSE
    /\ logins = 0
    /\ started = 0
    /\ turns = [t \in Turns |-> NewTurn]
    /\ catalog \in Catalogs

(* ------------------------------ handleLogin --------------------------- *)

Greeting == << "Bonjour ! Je suis votre assistant IA pour WordPress." >>

\* handleLogin up to its await.
LoginStart ==
    /\ logins < MaxLogins
    /\ ~validating
    /\ logins' = logins + 1
    /\ validating' = TRUE
    /\ wpStatus' = "connecting"
    /\ geminiStatus' = "connecting"
    /\ UNCHANGED << wpCredentials, messages, isTyping, abortControllerRef, started,
                    turns, catalog >>

\* handleLogin from the results of the two validations on.
LoginReturn(wpSuccess, geminiSuccess) ==
    /\ validating
    /\ validating' = FALSE
    /\ wpCredentials' = IF wpSuccess THEN Credentials ELSE wpCredentials
    /\ wpStatus' = IF wpSuccess THEN "connected" ELSE "error"
    /\ geminiStatus' = IF geminiSuccess THEN "connected" ELSE "error"
    /\ messages' = IF wpSuccess /\ geminiSuccess
                   THEN << [sender |-> "ai", text |-> Greeting] >>
                   ELSE messages
    /\ UNCHANGED << isTyping, abortControllerRef, logins, started, turns, catalog >>

(* -------------------------- handleStopGeneration ---------------------- *)

handleStopGeneration ==
    /\ turns' = IF abortControllerRef # 0
                THEN [turns EXCEPT ![abortControllerRef].aborted = TRUE]
                ELSE turns
    /\ abortControllerRef' = 0
    /\ isTyping' = FALSE
    /\ UNCHANGED << wpCredentials, wpStatus, geminiStatus, messages, validating, logins,
                    started, catalog >>

(* --------------------------- handleSendMessage ------------------------ *)

Texts == {"  ", "liste les catégories"}

\* SendMessageTo with a slip: the guard tests the text alone, not the
\* credentials.
SendMessageTo_NoCredentialsGuard(text, replies) ==
    IF Trim(text) = ""
    THEN UNCHANGED vars
    ELSE /\ started < MaxTurns
         /\ started' = started + 1
         /\ messages' = Append(messages, [sender |-> "user", text |-> << text >>])
         /\ isTyping' = TRUE
         /\ abortControllerRef' = started + 1
         /\ \E reply \in replies :
                turns' = [turns EXCEPT ![started + 1].pc = "llm",
                                       ![started + 1].reply = reply]
         /\ UNCHANGED << wpCredentials, wpStatus, geminiStatus, validating, logins, catalog >>

\* handleSendMessage up to the await of getGeminiResponse, which will answer
\* with one of `replies`.
SendMessageTo(text, replies) ==
    IF Trim(text) = "" \/ wpCredentials = Null
    THEN UNCHANGED vars
    ELSE /\ started < MaxTurns
         /\ started' = started + 1
         /\ messages' = Append(messages, [sender |-> "user", text |-> << text >>])
         /\ isTyping' = TRUE
         /\ abortControllerRef' = started + 1
         /\ \E reply \in replies :
                turns' = [turns EXCEPT ![started + 1].pc = "llm",
                                       ![started + 1].reply = reply]
         /\ UNCHANGED << wpCredentials, wpStatus, geminiStatus, validating, logins, catalog >>

SendMessage(text) == SendMessageTo(text, Replies)

\* A directory call is issued and awaited.
Call(tr, await, call) == [tr EXCEPT !.pc = await, !.calls = Append(@, call)]

\* The awaited call returns or throws.
Settled(tr, outcome) == [tr EXCEPT !.calls[Len(tr.calls)].outcome = outcome]

\* The switch is left with this response.
Respond(tr, response) == [tr EXCEPT !.pc = "respond", !.actionResponse = response]

\* An error is thrown out of the switch.
Throw(tr, error) == [tr EXCEPT !.pc = "respond", !.error = error]

\* AfterLlm with a slip: COPY_YOAST_META_DESC_TO_DESC returns from the
\* handler instead of leaving the switch.
AfterLlm_CopyReturns(tr) ==
    LET reply == tr.reply
        action == Get(reply, "action")
        hasPayload == "payload" \in DOMAIN reply
        categoryName == IF hasPayload THEN Get(reply.payload, "categoryName") ELSE Undefined
    IN  IF tr.aborted THEN [tr EXCEPT !.pc = "done"]
        ELSE IF ~reply.json THEN Throw(tr, "SyntaxError")
        ELSE IF ~Truthy(action) THEN Respond(tr, NoResponse)
        ELSE CASE action = "LIST_CATEGORIES" ->
                    Call(tr, "list", [op |-> "getCategories", outcome |-> "pending"])
               [] action = "GET_CATEGORY_METADATA" ->
                    IF ~hasPayload THEN Throw(tr, "TypeError")
                    ELSE IF ~Truthy(categoryName) THEN Respond(tr, AskNameToRead)
                    ELSE Call(tr, "resolve",
                              [op |-> "getCategoryByName", name |-> categoryName,
                               outcome |-> "pending"])
               [] action = "UPDATE_CATEGORY_METADATA" ->
                    IF ~hasPayload THEN Throw(tr, "TypeError")
                    ELSE IF ~Truthy(categoryName) THEN Respond(tr, AskNameToUpdate)
                    ELSE Call(tr, "resolve",
                              [op |-> "getCategoryByName", name |-> categoryName,
                               outcome |-> "pending"])
               [] action = "COPY_YOAST_META_DESC_TO_DESC" ->
                    IF ~hasPayload THEN Throw(tr, "TypeError")
                    ELSE [tr EXCEPT !.pc = "done"]
               [] OTHER -> Respond(tr, NoResponse)

\* AfterLlm with a slip: GET_CATEGORY_METADATA does not test categoryName
\* and resolves whatever it reads.
AfterLlm_ResolvesMissingName(tr) ==
    LET reply == tr.reply
        action == Get(reply, "action")
        hasPayload == "payload" \in DOMAIN reply
        categoryName == IF hasPayload THEN Get(reply.payload, "categoryName") ELSE Undefined
    IN  IF tr.aborted THEN [tr EXCEPT !.pc = "done"]
        ELSE IF ~reply.json THEN Throw(tr, "SyntaxError")
        ELSE IF ~Truthy(action) THEN Respond(tr, NoResponse)
        ELSE CASE action = "LIST_CATEGORIES" ->
                    Call(tr, "list", [op |-> "getCategories", outcome |-> "pending"])
               [] action = "GET_CATEGORY_METADATA" ->
                    IF ~hasPayload THEN Throw(tr, "TypeError")
                    ELSE Call(tr, "resolve",
                              [op |-> "getCategoryByName", name |-> categoryName,
                               outcome |-> "pending"])
               [] action = "UPDATE_CATEGORY_METADATA" ->
                    IF ~hasPayload THEN Throw(tr, "TypeError")
                    ELSE IF ~Truthy(categoryName) THEN Respond(tr, AskNameToUpdate)
                    ELSE Call(tr, "resolve",
                              [op |-> "getCategoryByName", name |-> categoryName,
                               outcome |-> "pending"])
               [] action = "COPY_YOAST_META_DESC_TO_DESC" ->
                    IF ~hasPayload THEN Throw(tr, "TypeError")
                    ELSE Respond(tr, NoResponse)
               [] OTHER -> Respond(tr, NoResponse)

\* AfterLlm with a slip: an action the switch has no case for falls to the
\* case of LIST_CATEGORIES.
AfterLlm_DefaultLists(tr) ==
    LET reply == tr.reply
        action == Get(reply, "action")
        hasPayload == "payload" \in DOMAIN reply
        categoryName == IF hasPayload THEN Get(reply.payload, "categoryName") ELSE Undefined
    IN  IF tr.aborted THEN [tr EXCEPT !.pc = "done"]
        ELSE IF ~reply.json THEN Throw(tr, "SyntaxError")
        ELSE IF ~Truthy(action) THEN Respond(tr, NoResponse)
        ELSE CASE action = "LIST_CATEGORIES" ->
                    Call(tr, "list", [op |-> "getCategories", outcome |-> "pending"])
               [] action = "GET_CATEGORY_METADATA" ->
                    IF ~hasPayload THEN Throw(tr, "TypeError")
                    ELSE IF ~Truthy(categoryName) THEN Respond(tr, AskNameToRead)
                    ELSE Call(tr, "resolve",
                              [op |-> "getCategoryByName", name |-> categoryName,
                               outcome |-> "pending"])
               [] action = "UPDATE_CATEGORY_METADATA" ->
                    IF ~hasPayload THEN Throw(tr, "TypeError")
                    ELSE IF ~Truthy(categoryName) THEN Respond(tr, AskNameToUpdate)
                    ELSE Call(tr, "resolve",
                              [op |-> "getCategoryByName", name |-> categoryName,
                               outcome |-> "pending"])
               [] action = "COPY_YOAST_META_DESC_TO_DESC" ->
                    IF ~hasPayload THEN Throw(tr, "TypeError")
                    ELSE Respond(tr, NoResponse)
               [] OTHER -> Call(tr, "list", [op |-> "getCategories", outcome |-> "pending"])

\* From the return of getGeminiResponse to the first await of the switch, or
\* to its end.
AfterLlm(tr) ==
    LET reply == tr.reply
        action == Get(reply, "action")
        hasPayload == "payload" \in DOMAIN reply
        categoryName == IF hasPayload THEN Get(reply.payload, "categoryName") ELSE Undefined
    IN  IF tr.aborted THEN [tr EXCEPT !.pc = "done"]
        ELSE IF ~reply.json THEN Throw(tr, "SyntaxError")
        ELSE IF ~Truthy(action) THEN Respond(tr, NoResponse)
        ELSE CASE action = "LIST_CATEGORIES" ->
                    Call(tr, "list", [op |-> "getCategories", outcome |-> "pending"])
               [] action = "GET_CATEGORY_METADATA" ->
                    IF ~hasPayload THEN Throw(tr, "TypeError")
                    ELSE IF ~Truthy(categoryName) THEN Respond(tr, AskNameToRead)
                    ELSE Call(tr, "resolve",
                              [op |-> "getCategoryByName", name |-> categoryName,
                               outcome |-> "pending"])
               [] action = "UPDATE_CATEGORY_METADATA" ->
                    IF ~hasPayload THEN Throw(tr, "TypeError")
                    ELSE IF ~Truthy(categoryName) THEN Respond(tr, AskNameToUpdate)
                    ELSE Call(tr, "resolve",
                              [op |-> "getCategoryByName", name |-> categoryName,
                               outcome |-> "pending"])
               [] action = "COPY_YOAST_META_DESC_TO_DESC" ->
                    IF ~hasPayload THEN Throw(tr, "TypeError")
                    ELSE Respond(tr, NoResponse)
               [] OTHER -> Respond(tr, NoResponse)

\* LIST_CATEGORIES from the return of getCategories on.
AfterList(tr, categories) == Respond(tr, ListResponse(categories))

\* GetAfterResolve with a slip: the suggestions are tested before the exact
\* match.
GetAfterResolve_SuggestionsFirst(tr0, result) ==
    LET tr == [tr0 EXCEPT !.resolution = << result >>]
        categoryNameToFind == tr.reply.payload["categoryName"]
    IN  IF Len(result.suggestions) > 0
        THEN Respond(tr, SuggestionsToRead(categoryNameToFind, result.suggestions))
        ELSE IF result.exactMatch # << >>
        THEN Respond(tr, MetadataResponse(result.exactMatch[1]))
        ELSE Respond(tr, NotFoundToRead(categoryNameToFind))

\* GET_CATEGORY_METADATA from the return of getCategoryByName on.
GetAfterResolve(tr0, result) ==
    LET tr == [tr0 EXCEPT !.resolution = << result >>]
        categoryNameToFind == tr.reply.payload["categoryName"]
    IN  IF result.exactMatch # << >>
        THEN Respond(tr, MetadataResponse(result.exactMatch[1]))
        ELSE IF Len(result.suggestions) > 0
        THEN Respond(tr, SuggestionsToRead(categoryNameToFind, result.suggestions))
        ELSE Respond(tr, NotFoundToRead(categoryNameToFind))

\* UpdateAfterResolve with a slip: the empty patch is not detected and is
\* sent to the backend.
UpdateAfterResolve_SendsEmptyPatch(tr0, result) ==
    LET tr == [tr0 EXCEPT !.resolution = << result >>]
        categoryName == tr.reply.payload["categoryName"]
        updatePayload == BuildUpdatePayload(tr.reply.payload)
        built == [tr EXCEPT !.updatePayload = << updatePayload >>]
    IN  IF result.exactMatch # << >>
        THEN Call(built, "update",
                  [op |-> "updateCategoryMetadata",
                   id |-> result.exactMatch[1]["id"], patch |-> updatePayload,
                   outcome |-> "pending"])
        ELSE IF Len(result.suggestions) > 0
        THEN Respond(tr, SuggestionsToUpdate(categoryName, result.suggestions))
        ELSE Respond(tr, NotFoundToUpdate(categoryName))

\* UpdateAfterResolve with a slip: without an exact match the first
\* suggestion is patched.
UpdateAfterResolve_PatchesSuggestion(tr0, result) ==
    LET tr == [tr0 EXCEPT !.resolution = << result >>]
        categoryName == tr.reply.payload["categoryName"]
        updatePayload == BuildUpdatePayload(tr.reply.payload)
        built == [tr EXCEPT !.updatePayload = << updatePayload >>]
        categoryToUpdate ==
            IF result.exactMatch # << >> THEN result.exactMatch[1] ELSE result.suggestions[1]
    IN  IF result.exactMatch # << >> \/ Len(result.suggestions) > 0
        THEN IF DOMAIN updatePayload = {}
             THEN Respond(built, NothingToChange)
             ELSE Call(built, "update",
                       [op |-> "updateCategoryMetadata",
                        id |-> categoryToUpdate["id"], patch |-> updatePayload,
                        outcome |-> "pending"])
        ELSE Respond(tr, NotFoundToUpdate(categoryName))

\* UpdateAfterResolve with a slip: a patch that would change nothing in the
\* matched category is answered like the empty patch and is not sent.
UpdateAfterResolve_SkipsUnchanged(tr0, result) ==
    LET tr == [tr0 EXCEPT !.resolution = << result >>]
        categoryName == tr.reply.payload["categoryName"]
        updatePayload == BuildUpdatePayload(tr.reply.payload)
        built == [tr EXCEPT !.updatePayload = << updatePayload >>]
        unchanged ==
            \A k \in DOMAIN updatePayload :
                /\ k \in DOMAIN result.exactMatch[1]
                /\ result.exactMatch[1][k] = updatePayload[k]
    IN  IF result.exactMatch # << >>
        THEN IF DOMAIN updatePayload = {} \/ unchanged
             THEN Respond(built, NothingToChange)
             ELSE Call(built, "update",
                       [op |-> "updateCategoryMetadata",
                        id |-> result.exactMatch[1]["id"], patch |-> updatePayload,
                        outcome |-> "pending"])
        ELSE IF Len(result.suggestions) > 0
        THEN Respond(tr, SuggestionsToUpdate(categoryName, result.suggestions))
        ELSE Respond(tr, NotFoundToUpdate(categoryName))

\* UPDATE_CATEGORY_METADATA from the return of getCategoryByName on: to the
\* await of updateCategoryMetadata, or to the end of the switch.
UpdateAfterResolve(tr0, result) ==
    LET tr == [tr0 EXCEPT !.resolution = << result >>]
        categoryName == tr.reply.payload["categoryName"]
        updatePayload == BuildUpdatePayload(tr.reply.payload)
        built == [tr EXCEPT !.updatePayload = << updatePayload >>]
    IN  IF result.exactMatch # << >>
        THEN IF DOMAIN updatePayload = {}
             THEN Respond(built, NothingToChange)
             ELSE Call(built, "update",
                       [op |-> "updateCategoryMetadata",
                        id |-> result.exactMatch[1]["id"], patch |-> updatePayload,
                        outcome |-> "pending"])
        ELSE IF Len(result.suggestions) > 0
        THEN Respond(tr, SuggestionsToUpdate(categoryName, result.suggestions))
        ELSE Respond(tr, NotFoundToUpdate(categoryName))

\* AfterResolve with a slip: the case of GET_CATEGORY_METADATA runs the code
\* of the case after it.
AfterResolve_RunsTheUpdateCase(tr, result) == UpdateAfterResolve(tr, result)

AfterResolve(tr, result) ==
    IF tr.reply.action = "GET_CATEGORY_METADATA"
    THEN GetAfterResolve(tr, result)
    ELSE UpdateAfterResolve(tr, result)

\* AfterUpdate with a slip: no catch, the error of the update leaves the
\* switch.
AfterUpdate_NoCatch(tr, succeeded) ==
    LET categoryName == tr.reply.payload["categoryName"]
        name == Get(tr.reply.payload, "name")
    IN  IF succeeded
        THEN Respond(tr, UpdateSucceeded(name, categoryName))
        ELSE Throw(tr, "UpdateError")

\* UPDATE_CATEGORY_METADATA from the end of updateCategoryMetadata on: its
\* try and its catch.
AfterUpdate(tr, succeeded) ==
    LET categoryName == tr.reply.payload["categoryName"]
        name == Get(tr.reply.payload, "name")
    IN  IF succeeded
        THEN Respond(tr, UpdateSucceeded(name, categoryName))
        ELSE Respond(tr, UpdateFailed(categoryName))

(* ----------------- after the switch (from spec.md) -------------------- *)

Apology == << "Désolé, une erreur est survenue." >>

\* ResponseText with a slip: an error of the directory is swallowed like a
\* text that does not parse, and the LLM's text is shown.
ResponseText_SwallowsReadError(tr) ==
    IF tr.actionResponse # NoResponse THEN tr.actionResponse
    ELSE << tr.reply.text >>

\* The one response of a turn: the apology for a directory error, the
\* response of the switch when it built one, the LLM's text otherwise (a
\* text that is no JSON, a payload that cannot be read, no action taken).
ResponseText(tr) ==
    IF tr.error \in {"ConnectionError", "UpdateError"} THEN Apology
    ELSE IF tr.actionResponse # NoResponse THEN tr.actionResponse
    ELSE << tr.reply.text >>

\* The call has returned: its reply is gone, what it did is kept.
Returned(tr) == [tr EXCEPT !.pc = "done", !.reply = NoReply]

\* The turn goes on awaiting, or returns, or delivers its response and
\* returns.
Continue(t, tr) ==
    IF tr.pc = "respond"
    THEN /\ messages' = Append(messages, [sender |-> "ai", text |-> ResponseText(tr)])
         /\ turns' = [turns EXCEPT ![t] = Returned([tr EXCEPT !.responses = @ + 1])]
    ELSE /\ messages' = messages
         /\ turns' = [turns EXCEPT ![t] = IF tr.pc = "done" THEN Returned(tr) ELSE tr]

(* ------------------------- the steps of a turn ------------------------ *)

LlmReturn(t) ==
    /\ turns[t].pc = "llm"
    /\ Continue(t, AfterLlm(turns[t]))
    /\ UNCHANGED << wpCredentials, wpStatus, geminiStatus, isTyping, abortControllerRef,
                    validating, logins, started, catalog >>

ListReturn(t) ==
    /\ turns[t].pc = "list"
    /\ Continue(t, AfterList(Settled(turns[t], "returned"), getCategories(catalog)))
    /\ UNCHANGED << wpCredentials, wpStatus, geminiStatus, isTyping, abortControllerRef,
                    validating, logins, started, catalog >>

ResolveReturn(t) ==
    /\ turns[t].pc = "resolve"
    /\ \E result \in getCategoryByName(catalog, turns[t].calls[Len(turns[t].calls)].name) :
            Continue(t, AfterResolve(Settled(turns[t], "returned"), result))
    /\ UNCHANGED << wpCredentials, wpStatus, geminiStatus, isTyping, abortControllerRef,
                    validating, logins, started, catalog >>

\* getCategories or getCategoryByName throws.
ReadFails(t) ==
    /\ turns[t].pc \in {"list", "resolve"}
    /\ Continue(t, Throw(Settled(turns[t], "threw"), "ConnectionError"))
    /\ UNCHANGED << wpCredentials, wpStatus, geminiStatus, isTyping, abortControllerRef,
                    validating, logins, started, catalog >>

UpdateReturn(t) ==
    /\ turns[t].pc = "update"
    /\ LET call == turns[t].calls[Len(turns[t].calls)]
       IN  catalog' = updateCategoryMetadata(catalog, call.id, call.patch)
    /\ Continue(t, AfterUpdate(Settled(turns[t], "returned"), TRUE))
    /\ UNCHANGED << wpCredentials, wpStatus, geminiStatus, isTyping, abortControllerRef,
                    validating, logins, started >>

\* updateCategoryMetadata throws: the backend rejected the patch.
UpdateFails(t) ==
    /\ turns[t].pc = "update"
    /\ Continue(t, AfterUpdate(Settled(turns[t], "threw"), FALSE))
    /\ UNCHANGED << wpCredentials, wpStatus, geminiStatus, isTyping, abortControllerRef,
                    validating, logins, started, catalog >>

Next ==
    \/ LoginStart
    \/ \E wpSuccess, geminiSuccess \in BOOLEAN : LoginReturn(wpSuccess, geminiSuccess)
    \/ handleStopGeneration
    \/ \E text \in Texts : SendMessage(text)
    \/ \E t \in Turns : LlmReturn(t)
    \/ \E t \in Turns : ListReturn(t)
    \/ \E t \in Turns : ResolveReturn(t)
    \/ \E t \in Turns : ReadFails(t)
    \/ \E t \in Turns : UpdateReturn(t)
    \/ \E t \in Turns : UpdateFails(t)

Spec == Init /\ [][Next]_vars

\* The steps of turn t that end an await.
TurnStep(t) ==
    \/ LlmReturn(t)
    \/ ListReturn(t)
    \/ ResolveReturn(t)
    \/ ReadFails(t)
    \/ UpdateReturn(t)
    \/ UpdateFails(t)

\* One reply for each action and each shape of payload the switch tells
\* apart: no payload, no categoryName, an empty one, the first category's
\* name, alone or with a description or a new name, empty or not.
VariantReplies ==
    {r \in Replies :
        "payload" \in DOMAIN r =>
            /\ DOMAIN r.payload \subseteq {"categoryName", "description", "name"}
            /\ Get(r.payload, "categoryName") # "Shirts"}

SendVariant(text) == SendMessageTo(text, VariantReplies)

VariantNext ==
    \/ LoginStart
    \/ \E wpSuccess, geminiSuccess \in BOOLEAN : LoginReturn(wpSuccess, geminiSuccess)
    \/ handleStopGeneration
    \/ \E text \in Texts : SendVariant(text)
    \/ \E t \in Turns : LlmReturn(t)
    \/ \E t \in Turns : ListReturn(t)
    \/ \E t \in Turns : ResolveReturn(t)
    \/ \E t \in Turns : ReadFails(t)
    \/ \E t \in Turns : UpdateReturn(t)
    \/ \E t \in Turns : UpdateFails(t)

\* The behaviours of Spec whose LLM answers with the variant replies, in
\* which every awaited call settles: the LLM answers, a directory call
\* returns or throws, and the event loop then runs the handler on.
FairSpec == Init /\ [][VariantNext]_vars /\ \A t \in Turns : WF_vars(TurnStep(t))


(* ------------------------------ claims -------------------------------- *)

IsUpdateCall(call) == call.op = "updateCategoryMetadata"
IsResolveCall(call) == call.op = "getCategoryByName"

UpdateCalls(tr) == SelectSeq(tr.calls, IsUpdateCall)

\* The category of the catalog with this id, as a set (empty when none).
WithId(categories, id) == {categories[i] : i \in {j \in 1..Len(categories) : categories[j]["id"] = id}}

Ids(categories) == [i \in 1..Len(categories) |-> categories[i]["id"]]

\* An update call of turn t is preceded by the resolution of its name, which
\* returned an exact match, and carries the id of that match.
UpdateCallsFollowExactMatch(tr) ==
    \A i \in 1..Len(tr.calls) :
        IsUpdateCall(tr.calls[i]) =>
            /\ i > 1
            /\ IsResolveCall(tr.calls[i - 1])
            /\ tr.calls[i - 1].outcome = "returned"
            /\ tr.resolution # << >>
            /\ tr.resolution[1].exactMatch # << >>
            /\ tr.calls[i].id = tr.resolution[1].exactMatch[1]["id"]

\* Turn t has an update call in flight, and the step applies its patch to
\* the category of its id and to nothing else.
AppliesUpdateOf(t) ==
    /\ turns[t].pc = "update"
    /\ LET call == turns[t].calls[Len(turns[t].calls)]
       IN  /\ IsUpdateCall(call)
           /\ \A i \in 1..Len(catalog) :
                IF catalog[i]["id"] = call.id
                THEN /\ DOMAIN catalog'[i] = DOMAIN catalog[i] \cup DOMAIN call.patch
                     /\ \A k \in DOMAIN call.patch : catalog'[i][k] = call.patch[k]
                     /\ \A k \in DOMAIN catalog[i] \ DOMAIN call.patch :
                            catalog'[i][k] = catalog[i][k]
                ELSE catalog'[i] = catalog[i]

\* C1: in every step, each update call a turn has issued follows a name
\* resolution of that turn that returned an exact match and targets the id
\* of the matched category (so a turn whose resolution gave suggestions or
\* nothing, or that had no categoryName to resolve, has issued none); the
\* catalog changes only by the update call of such a turn, which patches the
\* category of that id, and the catalog keeps its categories: none is
\* created.
C1_UpdateOnlyAfterExactMatch ==
    [][/\ \A t \in Turns : UpdateCallsFollowExactMatch(turns'[t])
       /\ Ids(catalog') = Ids(catalog)
       /\ catalog' # catalog => \E t \in Turns : AppliesUpdateOf(t)]_vars

\* A turn has resolved "Shirts" to the second category, patched it, and
\* answered; the catalog holds the patch.
C1_Witness ==
    \E t \in Turns :
        /\ turns[t].pc = "done"
        /\ Len(turns[t].calls) = 2
        /\ IsUpdateCall(turns[t].calls[2])
        /\ turns[t].calls[2].outcome = "returned"
        /\ turns[t].calls[2].id = 2
        /\ turns[t].resolution[1].exactMatch[1]["name"] = "Shirts"
        /\ \E k \in DOMAIN turns[t].calls[2].patch :
                catalog[2][k] = turns[t].calls[2].patch[k]


\* Turn t leaves the await of its name resolution in this step, as an
\* UPDATE_CATEGORY_METADATA, with an exact match.
UpdateResolvesExactly(t) ==
    /\ turns[t].pc = "resolve"
    /\ turns[t].reply.action = "UPDATE_CATEGORY_METADATA"
    /\ turns'[t].pc # "resolve"
    /\ turns'[t].resolution # << >>
    /\ turns'[t].resolution[1].exactMatch # << >>

\* The payload key that feeds each key of the patch, apart from description.
TruthyFields ==
    {<< "name", "name" >>, << "slug", "slug" >>, << "metaTitle", "_yoast_wpseo_title" >>,
     << "metaDescription", "_yoast_wpseo_metadesc" >>,
     << "focusKeyphrase", "_yoast_wpseo_focuskw" >>}

PatchFollowsPayload(patch, payload) ==
    /\ "description" \in DOMAIN patch <=> "description" \in DOMAIN payload
    /\ "description" \in DOMAIN patch => patch["description"] = payload["description"]
    /\ \A f \in TruthyFields :
        /\ f[2] \in DOMAIN patch <=> (f[1] \in DOMAIN payload /\ payload[f[1]] # "")
        /\ f[2] \in DOMAIN patch => patch[f[2]] = payload[f[1]]
    /\ DOMAIN patch \subseteq {"description"} \cup {f[2] : f \in TruthyFields}

\* C2: whenever an update turn resolves its name to an exact match, the
\* patch it builds has the description key exactly when the payload has it
\* (an empty description included), each of name, slug, SEO title, SEO meta
\* description and focus keyphrase exactly when the payload's field is not
\* empty, each with the payload's value, and no other key.
C2_PatchFollowsPayload ==
    [][\A t \in Turns :
        UpdateResolvesExactly(t) =>
            /\ turns'[t].updatePayload # << >>
            /\ PatchFollowsPayload(turns'[t].updatePayload[1], turns[t].reply.payload)]_vars

\* One turn awaits the update of a payload with metaTitle alone, its patch
\* the SEO title alone; another has sent the patch of an empty description.
C2_Witness ==
    \E t, u \in Turns :
        /\ turns[t].pc = "update"
        /\ DOMAIN turns[t].reply.payload = {"categoryName", "metaTitle"}
        /\ turns[t].updatePayload = << [_yoast_wpseo_title |-> "New title"] >>
        /\ turns[u].pc = "done"
        /\ turns[u].updatePayload = << [description |-> ""] >>
        /\ Len(UpdateCalls(turns[u])) = 1

\* The payload names no field the patch takes.
NothingToPatch(payload) ==
    /\ "description" \notin DOMAIN payload
    /\ \A f \in TruthyFields : Get(payload, f[1]) \in {Undefined, ""}

\* C3: when an update turn resolves its name to an exact match and its
\* payload gives nothing to patch, the turn ends in that step answering that
\* there is nothing to change, it has issued no update call, and the catalog
\* is as before.
C3_EmptyPatchIsNotSent ==
    [][\A t \in Turns :
        (UpdateResolvesExactly(t) /\ NothingToPatch(turns[t].reply.payload)) =>
            /\ turns'[t].pc = "done"
            /\ turns'[t].actionResponse = NothingToChange
            /\ messages' = Append(messages, [sender |-> "ai", text |-> NothingToChange])
            /\ UpdateCalls(turns'[t]) = << >>
            /\ catalog' = catalog]_vars

\* A turn matched its category exactly, built the empty patch, and ended
\* with the answer and without an update call.
C3_Witness ==
    \E t \in Turns :
        /\ turns[t].pc = "done"
        /\ turns[t].resolution # << >>
        /\ turns[t].resolution[1].exactMatch # << >>
        /\ turns[t].updatePayload # << >>
        /\ DOMAIN turns[t].updatePayload[1] = {}
        /\ turns[t].actionResponse = NothingToChange
        /\ UpdateCalls(turns[t]) = << >>

\* A new turn can start: a message that is not blank is accepted.
CanTakeTurn ==
    \E text \in Texts : ENABLED (SendMessage(text) /\ started' = started + 1)

\* C4: a turn whose update call threw has ended with no error thrown out of
\* the switch, with the failure message naming the category it asked for as
\* its one response, and with that one update call; and as long as the
\* bound on turns is not reached a further turn can start.
C4_UpdateErrorIsCaught ==
    \A t \in Turns :
        (\E i \in 1..Len(turns[t].calls) :
            IsUpdateCall(turns[t].calls[i]) /\ turns[t].calls[i].outcome = "threw") =>
            /\ turns[t].pc = "done"
            /\ turns[t].error = "none"
            /\ turns[t].actionResponse = UpdateFailed(turns[t].calls[1].name)
            /\ turns[t].responses = 1
            /\ Len(UpdateCalls(turns[t])) = 1
            /\ started < MaxTurns => CanTakeTurn

\* The first turn's update was rejected, and a second turn has started
\* after it.
C4_Witness ==
    /\ turns[1].pc = "done"
    /\ Len(turns[1].calls) = 2
    /\ IsUpdateCall(turns[1].calls[2])
    /\ turns[1].calls[2].outcome = "threw"
    /\ turns[1].actionResponse = UpdateFailed("Shirts")
    /\ turns[2].pc = "llm"
    /\ Len(messages) >= 2
    /\ messages[Len(messages)].sender = "user"
    /\ messages[Len(messages) - 1] = [sender |-> "ai", text |-> UpdateFailed("Shirts")]


\* The response ends in a bullet with nothing after it.
EndsInEmptyBullet(response) ==
    /\ Len(response) > 0
    /\ response[Len(response)] \in {" - ", "\n - "}

\* C5: a LIST_CATEGORIES turn that read an empty catalog has answered with
\* a message that is no list: it has no list header, and no bullet with
\* nothing after it.
C5_EmptyCatalogIsNoList ==
    \A t \in Turns :
        (/\ turns[t].pc = "done"
         /\ Len(turns[t].calls) = 1
         /\ turns[t].calls[1].op = "getCategories"
         /\ turns[t].calls[1].outcome = "returned"
         /\ Len(catalog) = 0) =>
            /\ turns[t].actionResponse # NoResponse
            /\ turns[t].actionResponse[1] # ListHeader
            /\ ~EndsInEmptyBullet(turns[t].actionResponse)

\* Turn t leaves the await of the LLM in this step, not stopped, with this
\* action and a payload.
Dispatches(t, action) ==
    /\ turns[t].pc = "llm"
    /\ ~turns[t].aborted
    /\ turns'[t].pc # "llm"
    /\ turns[t].reply.json
    /\ Get(turns[t].reply, "action") = action
    /\ "payload" \in DOMAIN turns[t].reply

AskName(action) ==
    IF action = "GET_CATEGORY_METADATA" THEN AskNameToRead ELSE AskNameToUpdate

\* C6: when a GET_CATEGORY_METADATA or UPDATE_CATEGORY_METADATA turn is
\* dispatched with a payload whose categoryName is absent or empty, the turn
\* ends in that step with the request to name a category as its response,
\* having issued no directory call; the catalog is as before.
C6_MissingNameAsksForIt ==
    [][\A t \in Turns :
        \A action \in {"GET_CATEGORY_METADATA", "UPDATE_CATEGORY_METADATA"} :
            (/\ Dispatches(t, action)
             /\ Get(turns[t].reply.payload, "categoryName") \in {Undefined, ""}) =>
                /\ turns'[t].pc = "done"
                /\ turns'[t].calls = << >>
                /\ turns'[t].error = "none"
                /\ turns'[t].actionResponse = AskName(action)
                /\ messages' = Append(messages, [sender |-> "ai", text |-> AskName(action)])
                /\ catalog' = catalog]_vars

\* Both turns ended asking for the name, one to read and one to update,
\* without a directory call.
C6_Witness ==
    \E t, u \in Turns :
        /\ turns[t].pc = "done" /\ turns[t].actionResponse = AskNameToRead
        /\ turns[t].calls = << >>
        /\ turns[u].pc = "done" /\ turns[u].actionResponse = AskNameToUpdate
        /\ turns[u].calls = << >>

\* The five fields of a category, as GET_CATEGORY_METADATA reads them, in
\* the order of their labels.
FieldRead(category, i) ==
    CASE i = 1 -> Get(category, "description")
      [] i = 2 -> Get(category, "slug")
      [] i = 3 -> YoastHead(category, "title")
      [] i = 4 -> YoastHead(category, "description")
      [] OTHER -> Get(category, "_yoast_wpseo_focuskw")

Labels == {MetadataLabels[i] : i \in 1..Len(MetadataLabels)}

\* What the response shows after a label: the next token, or nothing when
\* the label is missing, or is followed by another label or by the end.
ShownAfter(response, label) ==
    LET at == {i \in 1..Len(response) : response[i] = label}
    IN  IF at = {} THEN ""
        ELSE LET i == Min(at)
             IN  IF i < Len(response) /\ response[i + 1] \notin Labels
                 THEN response[i + 1] ELSE ""

ShowsAllFields(response, category) ==
    \A i \in 1..Len(MetadataLabels) :
        /\ \E j \in 1..Len(response) : response[j] = MetadataLabels[i]
        /\ ShownAfter(response, MetadataLabels[i]) # ""
        /\ FieldRead(category, i) \in {Undefined, ""} =>
                ShownAfter(response, MetadataLabels[i]) \in Placeholders

\* C7: when a GET_CATEGORY_METADATA turn resolves its name to an exact
\* match, its response has the five labels (description, slug, SEO title,
\* SEO meta description, focus keyphrase), each followed by a value that is
\* not blank, and by the "not defined" placeholder when the category's
\* field is absent or empty.
C7_MetadataShowsEveryField ==
    [][\A t \in Turns :
        (/\ turns[t].pc = "resolve"
         /\ turns[t].reply.action = "GET_CATEGORY_METADATA"
         /\ turns'[t].pc # "resolve"
         /\ turns'[t].resolution # << >>
         /\ turns'[t].resolution[1].exactMatch # << >>) =>
            /\ turns'[t].pc = "done"
            /\ ShowsAllFields(turns'[t].actionResponse, turns'[t].resolution[1].exactMatch[1])]_vars

\* A turn read a category with no SEO field set: the three SEO labels are
\* followed by the placeholder.
C7_Witness ==
    \E t \in Turns :
        /\ turns[t].pc = "done"
        /\ turns[t].resolution # << >>
        /\ turns[t].resolution[1].exactMatch # << >>
        /\ \A i \in 3..5 : FieldRead(turns[t].resolution[1].exactMatch[1], i) \in {Undefined, ""}
        /\ Len(turns[t].actionResponse) > 0
        /\ turns[t].actionResponse[1] = "Voici les métadonnées pour \""
        /\ \A i \in 3..5 : ShownAfter(turns[t].actionResponse, MetadataLabels[i]) \in Placeholders


\* Turn t leaves the await of its name resolution in this step with the
\* resolver's result.
Resolves(t) ==
    /\ turns[t].pc = "resolve"
    /\ turns'[t].pc # "resolve"
    /\ turns'[t].resolution # << >>

DidYouMean(action) ==
    IF action = "GET_CATEGORY_METADATA" THEN DidYouMeanToRead ELSE DidYouMeanToUpdate

NotFound(action, name) ==
    IF action = "GET_CATEGORY_METADATA" THEN NotFoundToRead(name) ELSE NotFoundToUpdate(name)

ListsSuggestions(response) ==
    \E i \in 1..Len(response) : response[i] \in {DidYouMeanToRead, DidYouMeanToUpdate}

\* The names a response lists after its question, in order.
IsName(token) == token \notin {"\"", "\n - "}

ListedNames(response, question) ==
    LET at == Min({i \in 1..Len(response) : response[i] = question})
    IN  SelectSeq(SubSeq(response, at + 1, Len(response)), IsName)

\* C8: when a GET_CATEGORY_METADATA or UPDATE_CATEGORY_METADATA turn gets
\* the resolver's result, exactly one of three routes is taken, the same for
\* both actions.  With an exact match: the exact-match branch (the metadata
\* of the match; the update call on its id, or nothing to change), and a
\* response that lists no suggestions, whatever suggestions came along.
\* Otherwise, with suggestions: a response that lists their names in the
\* resolver's order, and no update.  Otherwise: category not found.
C8_ResolutionRoutes ==
    [][\A t \in Turns :
        Resolves(t) =>
            LET action == turns[t].reply.action
                name == turns[t].reply.payload["categoryName"]
                result == turns'[t].resolution[1]
                response == turns'[t].actionResponse
            IN  IF result.exactMatch # << >>
                THEN /\ ~ListsSuggestions(response)
                     /\ response # NotFound(action, name)
                     /\ IF action = "GET_CATEGORY_METADATA"
                        THEN /\ turns'[t].pc = "done"
                             /\ response = MetadataResponse(result.exactMatch[1])
                        ELSE \/ /\ turns'[t].pc = "update"
                                /\ turns'[t].calls[Len(turns'[t].calls)].id
                                        = result.exactMatch[1]["id"]
                             \/ /\ turns'[t].pc = "done"
                                /\ response = NothingToChange
                ELSE /\ turns'[t].pc = "done"
                     /\ UpdateCalls(turns'[t]) = << >>
                     /\ IF Len(result.suggestions) > 0
                        THEN /\ response[Len(response)] = "\""
                             /\ \E i \in 1..Len(response) : response[i] = DidYouMean(action)
                             /\ ListedNames(response, DidYouMean(action))
                                    = [i \in 1..Len(result.suggestions) |->
                                            result.suggestions[i]["name"]]
                        ELSE response = NotFound(action, name)]_vars

\* A read got an exact match together with suggestions and answered with
\* the metadata of the match.
C8_Witness ==
    \E t \in Turns :
        /\ turns[t].pc = "done"
        /\ turns[t].resolution # << >>
        /\ turns[t].resolution[1].exactMatch # << >>
        /\ Len(turns[t].resolution[1].suggestions) > 0
        /\ turns[t].updatePayload = << >>
        /\ turns[t].actionResponse = MetadataResponse(turns[t].resolution[1].exactMatch[1])

\* C9: a COPY_YOAST_META_DESC_TO_DESC turn that is dispatched with a
\* categoryName goes on to resolve that name.
C9_CopyResolvesTheName ==
    [][\A t \in Turns :
        (/\ Dispatches(t, "COPY_YOAST_META_DESC_TO_DESC")
         /\ Truthy(Get(turns[t].reply.payload, "categoryName"))) =>
            /\ turns'[t].pc = "resolve"
            /\ Len(turns'[t].calls) = 1
            /\ IsResolveCall(turns'[t].calls[1])
            /\ turns'[t].calls[1].name = turns[t].reply.payload["categoryName"]]_vars

InFlight == {"llm", "list", "resolve", "update"}

\* Turn t, not stopped, returns in this step.
Ends(t) ==
    /\ turns[t].pc \in InFlight
    /\ ~turns[t].aborted
    /\ turns'[t].pc = "done"

IsNoOp(reply) ==
    \/ ~reply.json
    \/ ~Truthy(Get(reply, "action"))
    \/ Get(reply, "action") \notin Actions

\* C11: a turn, not stopped, whose LLM reply is no JSON or names no action
\* of the switch returns at once: it has made no directory call, built no
\* response of its own, left the catalog alone, and its one assistant
\* message is the LLM's text as it came, not the apology.
C11_NoOpAnswersWithTheText ==
    [][\A t \in Turns :
        (/\ turns[t].pc = "llm"
         /\ ~turns[t].aborted
         /\ turns'[t].pc # "llm"
         /\ IsNoOp(turns[t].reply)) =>
            /\ turns'[t].pc = "done"
            /\ turns'[t].calls = << >>
            /\ turns'[t].actionResponse = NoResponse
            /\ turns'[t].error \notin {"ConnectionError", "UpdateError"}
            /\ turns'[t].responses = 1
            /\ messages' = Append(messages, [sender |-> "ai", text |-> << turns[t].reply.text >>])
            /\ messages'[Len(messages')].text # Apology
            /\ catalog' = catalog]_vars

\* One turn answered with a text that JSON.parse rejected, the other with a
\* JSON text that took no action; neither called the directory.
C11_Witness ==
    \E t, u \in Turns :
        /\ turns[t].pc = "done" /\ turns[t].error = "SyntaxError"
        /\ turns[t].calls = << >> /\ turns[t].responses = 1
        /\ turns[u].pc = "done" /\ turns[u].error = "none"
        /\ turns[u].calls = << >> /\ turns[u].responses = 1
        /\ turns[u].actionResponse = NoResponse
        /\ \E i \in 1..Len(messages) : messages[i] = [sender |-> "ai", text |-> << PlainReply.text >>]
        /\ \E i \in 1..Len(messages) : messages[i] = [sender |-> "ai", text |-> << "{json}" >>]

\* The read call that turn t awaits throws in this step.
ReadThrows(t) ==
    /\ turns[t].pc \in {"list", "resolve"}
    /\ turns'[t].pc # turns[t].pc
    /\ Len(turns'[t].calls) >= 1
    /\ turns'[t].calls[Len(turns'[t].calls)].outcome = "threw"

\* A turn has ended on a read call that threw.
ReadFailed(tr) ==
    /\ tr.pc = "done"
    /\ tr.calls # << >>
    /\ ~IsUpdateCall(tr.calls[Len(tr.calls)])
    /\ tr.calls[Len(tr.calls)].outcome = "threw"

\* C12: when getCategories or getCategoryByName throws, the turn returns in
\* that step without issuing the call again or any other; its one assistant
\* message is the apology, which is neither the LLM's text nor a response of
\* the switch; the catalog is as it was; and afterwards, as long as the
\* bound on turns is not reached, a further turn can start.
C12_ReadFailureApologises ==
    /\ [][\A t \in Turns :
            ReadThrows(t) =>
                /\ turns'[t].pc = "done"
                /\ turns'[t].error = "ConnectionError"
                /\ Len(turns'[t].calls) = Len(turns[t].calls)
                /\ turns'[t].actionResponse = NoResponse
                /\ turns'[t].responses = 1
                /\ messages' = Append(messages, [sender |-> "ai", text |-> Apology])
                /\ Apology # << turns[t].reply.text >>
                /\ catalog' = catalog]_vars
    /\ [](\A t \in Turns :
            (ReadFailed(turns[t]) /\ started < MaxTurns) => CanTakeTurn)

\* The first turn's name resolution threw, it answered with the apology,
\* and a second turn has started after it.
C12_Witness ==
    /\ ReadFailed(turns[1])
    /\ Len(turns[1].calls) = 1
    /\ IsResolveCall(turns[1].calls[1])
    /\ turns[2].pc = "llm"
    /\ Len(messages) >= 2
    /\ messages[Len(messages)].sender = "user"
    /\ messages[Len(messages) - 1] = [sender |-> "ai", text |-> Apology]

\* C13: at most one turn is in flight: no turn awaits the LLM or a
\* directory call while another one does.
C13_OneDispatchInFlight ==
    \A t, u \in Turns :
        (turns[t].pc \in InFlight /\ turns[u].pc \in InFlight) => t = u

\* C14: a stop while a turn awaits the LLM marks that turn, and a marked
\* turn that leaves the await of the LLM returns at once: it has issued no
\* directory call, built no response, appended no message and left the
\* catalog alone.
C14_StopWhileLlmPending ==
    [][\A t \in Turns :
        /\ (handleStopGeneration /\ turns[t].pc = "llm") => turns'[t].aborted
        /\ (turns[t].pc = "llm" /\ turns[t].aborted /\ turns'[t].pc # "llm") =>
                /\ turns'[t].pc = "done"
                /\ turns'[t].calls = << >>
                /\ turns'[t].actionResponse = NoResponse
                /\ turns'[t].responses = 0
                /\ messages' = messages
                /\ catalog' = catalog]_vars

\* C15: a turn that was stopped while it awaited a directory call returns
\* when that call ends, and discards its result: it issues no further call
\* from it, builds no response from it and appends no assistant message.
C15_StopAfterBackendCall ==
    [][\A t \in Turns :
        (/\ turns[t].pc \in {"list", "resolve", "update"}
         /\ turns[t].aborted
         /\ turns'[t].pc # turns[t].pc) =>
            /\ turns'[t].pc = "done"
            /\ Len(turns'[t].calls) = Len(turns[t].calls)
            /\ turns'[t].actionResponse = NoResponse
            /\ turns'[t].responses = 0
            /\ messages' = messages]_vars

\* The response has the shape of the success message of an update.
IsSuccess(response) ==
    /\ Len(response) = 3
    /\ response[1] = "La catégorie \""
    /\ response[3] = "\" a été mise à jour avec succès."

\* The first turn ended on an update that the backend accepted, and has
\* answered with the success message.
UpdatedOnce ==
    /\ turns[1].pc = "done"
    /\ turns[1].responses = 1
    /\ Len(turns[1].calls) = 2
    /\ IsUpdateCall(turns[1].calls[2])
    /\ turns[1].calls[2].outcome = "returned"
    /\ IsSuccess(turns[1].actionResponse)

\* The second turn was sent when the first had answered (its message is the
\* last of the conversation), is in flight and not stopped, and carries the
\* action of the first: UPDATE_CATEGORY_METADATA with the same categoryName
\* and a payload that builds the same patch.  No other turn was sent.
SameUpdateAgain ==
    /\ UpdatedOnce
    /\ \A u \in Turns \ {1, 2} : turns[u].pc = "idle"
    /\ turns[2].pc \in InFlight
    /\ ~turns[2].aborted
    /\ messages[Len(messages)].sender = "user"
    /\ turns[2].reply.json
    /\ Get(turns[2].reply, "action") = "UPDATE_CATEGORY_METADATA"
    /\ "payload" \in DOMAIN turns[2].reply
    /\ Get(turns[2].reply.payload, "categoryName") = turns[1].calls[1].name
    /\ BuildUpdatePayload(turns[2].reply.payload) = turns[1].updatePayload[1]

\* The second turn returns in this step and none of its calls threw.
SecondEnds ==
    /\ turns'[2].pc = "done"
    /\ \A i \in 1..Len(turns'[2].calls) : turns'[2].calls[i].outcome = "returned"

\* C16 as claimed: the same update issued a second time, whatever its
\* payload, leaves the catalog as the first left it and answers with a
\* success message.
C16_SameUpdateTwice ==
    [][(SameUpdateAgain /\ SecondEnds) =>
            /\ catalog' = catalog
            /\ IsSuccess(turns'[2].actionResponse)]_vars

\* C16, amended: the same update issued a second time, with a payload that
\* gives the category no new name, resolves to the same category, sends the
\* same patch to it, leaves the catalog as the first left it and answers
\* with the same success message.
C16_SameUpdateTwiceWithoutRename ==
    [][(/\ SameUpdateAgain
        /\ "name" \notin DOMAIN turns[1].updatePayload[1]
        /\ SecondEnds) =>
            /\ catalog' = catalog
            /\ Len(turns'[2].calls) = 2
            /\ IsUpdateCall(turns'[2].calls[2])
            /\ turns'[2].calls[2].id = turns[1].calls[2].id
            /\ turns'[2].calls[2].patch = turns[1].calls[2].patch
            /\ IsSuccess(turns'[2].actionResponse)
            /\ turns'[2].actionResponse = turns[1].actionResponse]_vars

\* Both turns, one after the other, sent the same patch without a new name
\* for the same categoryName, the backend accepted both, and both answered
\* with the same success message.
C16_Witness ==
    /\ UpdatedOnce
    /\ turns[2].pc = "done"
    /\ Len(turns[2].calls) = 2
    /\ IsUpdateCall(turns[2].calls[2])
    /\ turns[2].calls[2].outcome = "returned"
    /\ turns[2].calls[1].name = turns[1].calls[1].name
    /\ turns[2].calls[2].patch = turns[1].calls[2].patch
    /\ "name" \notin DOMAIN turns[1].calls[2].patch
    /\ turns[2].actionResponse = turns[1].actionResponse
    /\ Len(messages) >= 4
    /\ messages[Len(messages)] = [sender |-> "ai", text |-> turns[2].actionResponse]
    /\ messages[Len(messages) - 1].sender = "user"
    /\ messages[Len(messages) - 2] = [sender |-> "ai", text |-> turns[1].actionResponse]

\* The reply asks for a read or for nothing: LIST_CATEGORIES,
\* GET_CATEGORY_METADATA, or no action of the switch.
ReadsOnly(reply) ==
    \/ IsNoOp(reply)
    \/ Get(reply, "action") \in {"LIST_CATEGORIES", "GET_CATEGORY_METADATA"}

\* C17: no step of a turn whose action is LIST_CATEGORIES,
\* GET_CATEGORY_METADATA or the no-op issues an update call or changes the
\* catalog, whatever the payload says and whatever the resolver returns.
C17_ReadActionsNeverUpdate ==
    [][\A t \in Turns :
        (/\ turns[t].pc \in InFlight
         /\ ReadsOnly(turns[t].reply)
         /\ turns'[t] # turns[t]) =>
            /\ turns'[t].pc # "update"
            /\ UpdateCalls(turns'[t]) = << >>
            /\ catalog' = catalog]_vars

\* One turn listed the categories and the other read the metadata of an
\* exact match; neither called the update, and the catalog is one of the
\* initial ones.
C17_Witness ==
    \E t, u \in Turns :
        /\ turns[t].pc = "done"
        /\ Len(turns[t].calls) = 1
        /\ turns[t].calls[1] = [op |-> "getCategories", outcome |-> "returned"]
        /\ turns[u].pc = "done"
        /\ Len(turns[u].calls) = 1
        /\ IsResolveCall(turns[u].calls[1])
        /\ turns[u].resolution # << >>
        /\ turns[u].resolution[1].exactMatch # << >>
        /\ turns[u].actionResponse = MetadataResponse(turns[u].resolution[1].exactMatch[1])
        /\ catalog \in Catalogs

\* C18: a turn that has started (its LLM call is made, its directory calls
\* may follow) has credentials stored; no blank text is ever in the
\* conversation; the credentials are stored only by the step that ends a
\* login whose WordPress validation succeeded; while none are stored no
\* step starts a turn, appends a message (the one change of the
\* conversation is the greeting of the login) or touches the typing flag;
\* and a send of blank text, or with no credentials stored, changes nothing.
C18_NoCallWithoutCredentials ==
    /\ [](/\ \A t \in Turns : turns[t].pc # "idle" => wpCredentials # Null
          /\ \A i \in 1..Len(messages) :
                messages[i].sender = "user" => Trim(messages[i].text[1]) # "")
    /\ [][/\ wpCredentials' # wpCredentials =>
                /\ validating
                /\ ~validating'
                /\ wpStatus' = "connected"
                /\ wpCredentials' = Credentials
          /\ wpCredentials = Null =>
                /\ started' = started
                /\ turns' = turns
                /\ isTyping' = isTyping
                /\ messages' # messages =>
                        messages' = << [sender |-> "ai", text |-> Greeting] >>
          /\ \A text \in Texts :
                (SendMessage(text) /\ (Trim(text) = "" \/ wpCredentials = Null)) =>
                    UNCHANGED vars]_vars

\* The login has ended with the WordPress validation failed and the other
\* succeeded: no credentials are stored, no turn has started, the
\* conversation is empty and the typing flag is down.
C18_Witness ==
    /\ logins = 1
    /\ ~validating
    /\ wpStatus = "error"
    /\ geminiStatus = "connected"
    /\ wpCredentials = Null
    /\ started = 0
    /\ \A t \in Turns : turns[t] = NewTurn
    /\ messages = << >>
    /\ ~isTyping

\* C19: a step of handleStopGeneration leaves every turn that was in flight
\* marked as stopped, the controller reference cleared and the typing flag
\* down; and when the reference was clear and the flag down already, it
\* changes nothing.
C19_StopMarksEveryTurnInFlight ==
    [][handleStopGeneration =>
            /\ \A t \in Turns : turns[t].pc \in InFlight => turns'[t].aborted
            /\ abortControllerRef' = 0
            /\ ~isTyping'
            /\ (abortControllerRef = 0 /\ ~isTyping) => UNCHANGED vars]_vars

====
